---------------------------- MODULE Spec2Model ----------------------------
(***************************************************************************)
(* Model of astroquery/cadc/core.py: the registry cache and capability     *)
(* resolver (get_access_url) and the CadcClass operations built on it.     *)
(*                                                                         *)
(* Strings are sequences of tokens.  A token stands for a run of           *)
(* characters; token boundaries fall where the code tests a prefix         *)
(* ('http', 'ivo', '#'), splits ('=', newline) or strips (' ').            *)
(***************************************************************************)
EXTENDS Integers, Sequences, FiniteSets, TLC

(***************************************************************************)
(* Bounds of the model.                                                    *)
(***************************************************************************)
MaxFeedLines == 2
MaxDocLen == 4
MaxRegistryRequests == 2

(***************************************************************************)
(* Python values.                                                          *)
(***************************************************************************)
\* None, where the code holds an optional string (capability=None,
\* cap.get("standardid", None)).
NoneVal == <<"<None>">>

\* Python truthiness of an optional string: `not capability`.
Truthy(s) == s # NoneVal /\ s # <<>>

\* str.startswith(prefix)
StartsWith(s, prefix) ==
    /\ Len(s) >= Len(prefix)
    /\ SubSeq(s, 1, Len(prefix)) = prefix

\* str.strip(): leading and trailing whitespace removed.
RECURSIVE LStrip(_)
LStrip(s) == IF s # <<>> /\ Head(s) = " " THEN LStrip(Tail(s)) ELSE s

RECURSIVE RStrip(_)
RStrip(s) ==
    IF s # <<>> /\ s[Len(s)] = " " THEN RStrip(SubSeq(s, 1, Len(s) - 1)) ELSE s

Strip(s) == RStrip(LStrip(s))

\* str.split(sep): the pieces between the occurrences of sep; always at
\* least one piece.
RECURSIVE Split(_, _)
Split(s, sep) ==
    IF \A i \in 1..Len(s) : s[i] # sep
    THEN <<s>>
    ELSE LET i == CHOOSE j \in 1..Len(s) :
                      s[j] = sep /\ \A k \in 1..(j - 1) : s[k] # sep
         IN  <<SubSeq(s, 1, i - 1)>> \o Split(SubSeq(s, i + 1, Len(s)), sep)

\* str.splitlines(): the lines of a text, without the line ends; a final
\* line end opens no further line.
SplitLines(text) ==
    LET pieces == Split(text, "\n")
    IN  IF pieces[Len(pieces)] = <<>>
        THEN SubSeq(pieces, 1, Len(pieces) - 1)
        ELSE pieces

\* The sequences over S of length at most n.
SeqUpTo(S, n) == UNION {[1..k -> S] : k \in 0..n}

RECURSIVE Flatten(_)
Flatten(ss) == IF ss = <<>> THEN <<>> ELSE Head(ss) \o Flatten(Tail(ss))

(***************************************************************************)
(* Outcomes of a call.                                                     *)
(***************************************************************************)
Return(v) == [kind |-> "return", value |-> v, exc |-> "-", msg |-> "-"]
Raise(e, m) == [kind |-> "raise", value |-> <<>>, exc |-> e, msg |-> m]

(***************************************************************************)
(* The registry feed (conf.CADC_REGISTRY_URL).                             *)
(***************************************************************************)
CadcAuthority == <<"ivo", "://cadc.nrc.ca/">>
TapUri == CadcAuthority \o <<"tap">>
DatalinkUri == CadcAuthority \o <<"datalink">>
OtherUri == <<"ivo", "://other.org/", "x">>
TapCapsUrl == <<"http", "://reg/tap/capabilities">>
DatalinkCapsUrl == <<"http", "://reg/datalink/capabilities">>

\* Lines a registry feed is made of: empty, comment, `key = value` with
\* and without blanks, and a value that itself contains '='.
FeedLines ==
    { <<>>,
      <<"#", "comment", "=", "x">>,
      TapUri \o <<" ", "=", " ">> \o TapCapsUrl,
      DatalinkUri \o <<"=">> \o DatalinkCapsUrl \o <<" ">>,
      OtherUri \o <<"=">> \o <<"http", "://reg/x?a", "=", "b">> }

FeedText(lines) == Flatten([i \in 1..Len(lines) |-> lines[i] \o <<"\n">>])

Feeds == {FeedText(ls) : ls \in SeqUpTo(FeedLines, MaxFeedLines)}

\* Outcome of an HTTP GET: a response whose raise_for_status() passes, or
\* one for which it raises HTTPError.
HttpOutcomes == {"ok", "HTTPError"}

\* Outcome of requests.get() followed by raise_for_status(): as above, or
\* the request itself raises ConnectionError.
RequestOutcomes == HttpOutcomes \cup {"ConnectionError"}

(***************************************************************************)
(* get_access_url.caps: the dict service id -> capabilities URL.           *)
(***************************************************************************)
EmptyCaps == <<>>

CapsPut(c, k, v) == [x \in (DOMAIN c) \cup {k} |-> IF x = k THEN v ELSE c[x]]

\* One line of the registry feed (the body of the for loop).  ok = FALSE
\* is the ValueError of unpacking line.split('=') into two names.
RegistryLine(c, line) ==
    IF Len(line) > 0 /\ ~StartsWith(line, <<"#">>)
    THEN LET parts == Split(line, "=")
         IN  IF Len(parts) = 2
             THEN [caps |-> CapsPut(c, Strip(parts[1]), Strip(parts[2])),
                   ok |-> TRUE]
             ELSE [caps |-> c, ok |-> FALSE]
    ELSE [caps |-> c, ok |-> TRUE]

\* The for loop over response.text.splitlines(); it stops at the first
\* line that raises, keeping what the earlier lines stored.
RECURSIVE RegistryLines(_, _)
RegistryLines(c, lines) ==
    IF lines = <<>>
    THEN [caps |-> c, ok |-> TRUE]
    ELSE LET r == RegistryLine(c, Head(lines))
         IN  IF r.ok THEN RegistryLines(r.caps, Tail(lines)) ELSE r

ParseRegistry(c, text) == RegistryLines(c, SplitLines(text))

\* Mutant of NeedsRegistry: the registry is fetched on every call.
NeedsRegistry_Always(c) == TRUE

\* `if not get_access_url.caps`: the registry is fetched when the dict
\* is empty.
NeedsRegistry(c) == c = EmptyCaps

\* Mutant of IsUrl: a URL is looked up in the registry like a service id.
IsUrl_Never(service) == FALSE

\* `service.startswith('http')`: the service is given by the URL of its
\* capabilities document.
IsUrl(service) == StartsWith(service, <<"http">>)

\* Mutant of ServiceUri: the service is looked up as given.
ServiceUri_AsGiven(service) == service

\* The short form of a CADC service is expanded to its ivo:// URI.
ServiceUri(service) ==
    IF ~StartsWith(service, <<"ivo">>) THEN CadcAuthority \o service ELSE service

(***************************************************************************)
(* The capabilities document.  A document is the sequence of its           *)
(* <capability> and <interface> elements in document order; an interface   *)
(* belongs to the capability opened last before it.                        *)
(***************************************************************************)
StdDatalink == <<"ivo://ivoa.net/std/DataLink#links-1.0">>
StdTap == <<"ivo://ivoa.net/std/TAP">>
SmCookie == <<"ivo://ivoa.net/sso#cookie">>
SmTls == <<"ivo://ivoa.net/sso#tls-with-certificate">>

\* securitymethod of an interface: <<>> when the interface has no such
\* element (i.securitymethod is None), else <<id>> with the standardid
\* attribute of its first securitymethod element, NoneVal when the
\* attribute is missing.
SecurityMethods == {<<>>, <<NoneVal>>, <<SmCookie>>, <<SmTls>>}

CapabilityElem(std) ==
    [tag |-> "capability", standardid |-> std, securitymethod |-> <<>>]
InterfaceElem(sm) ==
    [tag |-> "interface", standardid |-> NoneVal, securitymethod |-> sm]

DocElems ==
    {CapabilityElem(std) : std \in {StdDatalink, StdTap, NoneVal}}
        \cup {InterfaceElem(sm) : sm \in SecurityMethods}

Docs == SeqUpTo(DocElems, MaxDocLen)

PosName == <<"1", "2", "3", "4", "5", "6", "7", "8">>

\* The text of the accessurl element of the interface at position p.
AccessUrlAt(p) == <<"http", "://svc/", PosName[p]>>

\* cap.find_all('interface'): the positions of the interfaces of the
\* capability at position p, in document order.
RECURSIVE InterfacesFrom(_, _)
InterfacesFrom(doc, p) ==
    IF p > Len(doc) \/ doc[p].tag = "capability"
    THEN <<>>
    ELSE <<p>> \o InterfacesFrom(doc, p + 1)

Interfaces(doc, p) == InterfacesFrom(doc, p + 1)

\* Mutant of Usable: every security method passes.
Usable_Any(sm) == TRUE

\* The test on an interface of a capability with several interfaces:
\* not sm, or sm without standardid, or the cookie security method.
Usable(sm) ==
    \/ sm = <<>>
    \/ sm[1] = NoneVal
    \/ sm[1] = SmCookie

\* Mutant of FirstUsable: the first interface, whatever its security
\* method.
FirstUsable_First(doc, ifs) == IF ifs = <<>> THEN 0 ELSE Head(ifs)

\* The inner loop `for i in cap.find_all('interface')`: the first usable
\* interface of the list, 0 when there is none.
RECURSIVE FirstUsable(_, _)
FirstUsable(doc, ifs) ==
    IF ifs = <<>> THEN 0
    ELSE IF Usable(doc[Head(ifs)].securitymethod) THEN Head(ifs)
    ELSE FirstUsable(doc, Tail(ifs))

\* Mutant of FromCapability: a single interface is tested like the others.
FromCapability_NoSingle(doc, p) == FirstUsable(doc, Interfaces(doc, p))

\* What one matching capability yields: the position of the interface
\* whose accessurl is returned, 0 to go on with the next capability.
FromCapability(doc, p) ==
    LET ifs == Interfaces(doc, p)
    IN  IF Len(ifs) = 1 THEN ifs[1] ELSE FirstUsable(doc, ifs)

\* The loop `for cap in soup.find_all('capability')` from position p on.
RECURSIVE SelectFrom(_, _, _)
SelectFrom(doc, capability, p) ==
    IF p > Len(doc) THEN 0
    ELSE IF doc[p].tag = "capability" /\ doc[p].standardid = capability
              /\ FromCapability(doc, p) # 0
         THEN FromCapability(doc, p)
         ELSE SelectFrom(doc, capability, p + 1)

SelectInterface(doc, capability) == SelectFrom(doc, capability, 1)

(***************************************************************************)
(* get_access_url(service, capability) as a function of the cache and of   *)
(* what the two servers answer.  It yields the cache after the call, the   *)
(* outcome, and the requests made: regReqs requests of the registry feed   *)
(* and the URLs capsFetched of the capabilities documents requested.       *)
(***************************************************************************)
CannotFindService == "Cannot find the capabilities of service"
CapabilityNotFound ==
    "capabilitiy not found or not working with anonymous or cookie access"

Outcome(c, res, n, fetched) ==
    [caps |-> c, result |-> res, regReqs |-> n, capsFetched |-> fetched]

\* Mutant of ResolveCapability: a failed request is taken for an answer.
ResolveCapability_Swallow(c, n, caps_url, capability, capsStatus, doc) ==
    LET p == SelectInterface(doc, capability)
    IN  IF p # 0
        THEN Outcome(c, Return(AccessUrlAt(p)), n, <<caps_url>>)
        ELSE Outcome(c, Raise("RuntimeError", CapabilityNotFound), n,
                     <<caps_url>>)

\* Lines 762-782: fetch the capabilities document and pick the interface.
ResolveCapability(c, n, caps_url, capability, capsStatus, doc) ==
    IF capsStatus # "ok"
    THEN Outcome(c, Raise(capsStatus, "-"), n, <<caps_url>>)
    ELSE LET p == SelectInterface(doc, capability)
         IN  IF p # 0
             THEN Outcome(c, Return(AccessUrlAt(p)), n, <<caps_url>>)
             ELSE Outcome(c, Raise("RuntimeError", CapabilityNotFound), n,
                          <<caps_url>>)

\* Lines 750-761: look the service up in the cache.
LookupService(c, n, service, capability, capsStatus, doc) ==
    LET service_uri == ServiceUri(service)
    IN  IF service_uri \notin DOMAIN c
        THEN Outcome(c, Raise("AttributeError", CannotFindService), n, <<>>)
        ELSE IF ~Truthy(capability)
             THEN Outcome(c, Return(c[service_uri]), n, <<>>)
             ELSE ResolveCapability(c, n, c[service_uri], capability,
                                    capsStatus, doc)

GetAccessUrl(c, service, capability, regStatus, text, capsStatus, doc) ==
    IF IsUrl(service)
    THEN IF ~Truthy(capability)
         THEN Outcome(c, Return(service), 0, <<>>)
         ELSE ResolveCapability(c, 0, service, capability, capsStatus, doc)
    ELSE IF NeedsRegistry(c)
         THEN IF regStatus # "ok"
              THEN Outcome(c, Raise(regStatus, "-"), 1, <<>>)
              ELSE LET parsed == ParseRegistry(c, text)
                   IN  IF ~parsed.ok
                       THEN Outcome(parsed.caps, Raise("ValueError", "-"), 1, <<>>)
                       ELSE LookupService(parsed.caps, 1, service, capability,
                                          capsStatus, doc)
         ELSE LookupService(c, 0, service, capability, capsStatus, doc)

\* The answers to the requests a call made: the status of the registry
\* request and of the capabilities request, "-" for a request not made.
Answers(o, regStatus, capsStatus) ==
    [registry |-> IF o.regReqs = 1 THEN regStatus ELSE "-",
     capabilities |-> IF o.capsFetched # <<>> THEN capsStatus ELSE "-"]

NoAnswers == [registry |-> "-", capabilities |-> "-"]

(***************************************************************************)
(* CadcClass.                                                              *)
(***************************************************************************)
CADCDATALINK_SERVICE_URI == DatalinkUri

\* The instance has no _data_link_url attribute yet.
Unset == <<>>

\* The data_link_url property: the URL and the get_access_url call made
\* for it, if one was made.
DataLinkUrl(dl, c, regStatus, text, capsStatus, doc) ==
    IF dl # Unset
    THEN [url |-> dl, called |-> FALSE, access |-> Outcome(c, Return(dl), 0, <<>>),
          answers |-> NoAnswers]
    ELSE LET o == GetAccessUrl(c, CADCDATALINK_SERVICE_URI, StdDatalink,
                               regStatus, text, capsStatus, doc)
         IN  [url |-> IF o.result.kind = "return" THEN o.result.value ELSE Unset,
              called |-> TRUE, access |-> o,
              answers |-> Answers(o, regStatus, capsStatus)]

\* The property was not read.
NotRead(dl, c) ==
    [url |-> dl, called |-> FALSE, access |-> Outcome(c, Return(dl), 0, <<>>),
     answers |-> NoAnswers]

\* What an operation of the instance did: its outcome, the state of the
\* data_link_url property after it and the DataLink requests it sent.
CadcOutcome(res, d, reqs) == [result |-> res, dl |-> d, dlRequests |-> reqs]

\* A query result: None, or a table with columns and one publisher
\* identifier per row.
NoneResult == [isNone |-> TRUE, columns |-> {}, ids |-> <<>>]
Table(cs, ids) == [isNone |-> FALSE, columns |-> cs, ids |-> ids]

\* Mutant of Falsy: only None is refused.
Falsy_NoneOnly(q) == q.isNone

\* `not query_result`: None, or a table without rows.
Falsy(q) == q.isNone \/ Len(q.ids) = 0

\* commons.parse_coordinates(coordinates).fk5: the position as ra and dec
\* in degrees, formatted.
ParseCoordinates(c) ==
    IF c = "08h45m07.5s +54d18m00s"
    THEN [ra |-> "<fk5 ra of 08h45m07.5s>", dec |-> "<fk5 dec of +54d18m00s>"]
    ELSE [ra |-> "<fk5 ra of M31>", dec |-> "<fk5 dec of M31>"]

\* ---- _args_to_payload ----
\* The keyword `collection` was not passed.
Absent == <<"<absent>">>

\* Mutant of CollectionGiven: the keyword is present, whatever its value.
CollectionGiven_KeyOnly(collection) == collection # Absent

\* `'collection' in kwargs and kwargs['collection']`
CollectionGiven(collection) == collection # Absent /\ Truthy(collection)

AdqlSelect ==
    "SELECT * from caom2.Observation o join caom2.Plane p ON o.obsID=p.obsID WHERE "
AdqlJunk == "(quality_flag IS NULL OR quality_flag != 'junk')"

\* '{}'.format(collection): None prints as 'None'.
Format(v) == IF v = NoneVal THEN <<"None">> ELSE v

ArgsToPayload(coordinates, radius, collection) ==
    LET pos == ParseCoordinates(coordinates)
        query == <<AdqlSelect, "INTERSECTS( CIRCLE('ICRS', ", pos.ra, ", ",
                   pos.dec, ", ", radius, "), position_bounds) = 1", " AND ",
                   AdqlJunk>>
    IN  IF CollectionGiven(collection)
        THEN [query |-> query \o <<" AND ", "collection='">>
                              \o Format(collection) \o <<"'">>]
        ELSE [query |-> query]

\* ---- get_image_list ----
n_pids == 20

\* obj_list[a:b]
Slice(l, a, b) == SubSeq(l, a + 1, IF b < Len(l) THEN b ELSE Len(l))

\* Mutant of ChunksFrom: a final chunk shorter than chunk_len is dropped.
RECURSIVE ChunksFrom_DropShort(_, _, _)
ChunksFrom_DropShort(l, chunk_len, idx) ==
    IF idx + chunk_len > Len(l)
    THEN <<>>
    ELSE <<Slice(l, idx, idx + chunk_len)>>
             \o ChunksFrom_DropShort(l, chunk_len, idx + chunk_len)

\* chunks(): `for idx in range(0, len(obj_list), chunk_len)` from idx on.
RECURSIVE ChunksFrom(_, _, _)
ChunksFrom(l, chunk_len, idx) ==
    IF idx >= Len(l)
    THEN <<>>
    ELSE <<Slice(l, idx, idx + chunk_len)>>
             \o ChunksFrom(l, chunk_len, idx + chunk_len)

Chunks(obj_list, chunk_len) == ChunksFrom(obj_list, chunk_len, 0)

\* A dict as the sequence of its items in insertion order: d[k] = v.
DictSet(d, k, v) ==
    IF \E i \in 1..Len(d) : d[i][1] = k
    THEN [i \in 1..Len(d) |-> IF d[i][1] = k THEN <<k, v>> ELSE d[i]]
    ELSE Append(d, <<k, v>>)

\* {param.name: param.value for param in service_params
\*  if param.name in ['ID', 'RUNID']}
RECURSIVE InputParams(_)
InputParams(service_params) ==
    IF service_params = <<>> THEN <<>>
    ELSE LET rest == InputParams(SubSeq(service_params, 1, Len(service_params) - 1))
             param == service_params[Len(service_params)]
         IN  IF param.name \in {"ID", "RUNID"}
             THEN DictSet(rest, param.name, param.value)
             ELSE rest

\* {'POS': 'CIRCLE {} {} {}'.format(ra, dec, radius)}
CutoutPos(coordinates, radius) ==
    LET pos == ParseCoordinates(coordinates)
    IN  <<"CIRCLE ", pos.ra, " ", pos.dec, " ", radius>>

\* Mutant of CutoutUrls: the access URL is not tested for '/sync'.
RECURSIVE CutoutUrls_AnyMode(_, _)
CutoutUrls_AnyMode(services, pos) ==
    IF services = <<>> THEN <<>>
    ELSE LET service_def == Head(services)
         IN  (IF service_def.semantics = "#cutout"
              THEN <<[url |-> service_def.access_url,
                      params |-> DictSet(InputParams(service_def.input_params),
                                         "POS", pos)]>>
              ELSE <<>>)
             \o CutoutUrls_AnyMode(Tail(services), pos)

\* The URLs one DataLink response adds to the result.
RECURSIVE CutoutUrls(_, _)
CutoutUrls(services, pos) ==
    IF services = <<>> THEN <<>>
    ELSE LET service_def == Head(services)
         IN  (IF /\ service_def.semantics = "#cutout"
                 /\ \E t \in 1..Len(service_def.access_url) :
                        service_def.access_url[t] = "/sync"
              THEN <<[url |-> service_def.access_url,
                      params |-> DictSet(InputParams(service_def.input_params),
                                         "POS", pos)]>>
              ELSE <<>>)
             \o CutoutUrls(Tail(services), pos)

\* The loop over the batches from batch k on: the requests sent, the URLs
\* collected, and the exception that ended the loop, if any.
RECURSIVE ImageListLoop(_, _, _, _)
ImageListLoop(batches, responses, pos, k) ==
    IF k > Len(batches)
    THEN [requests |-> <<>>, urls |-> <<>>, exc |-> "-"]
    ELSE IF responses[k].status # "ok"
    THEN [requests |-> <<batches[k]>>, urls |-> <<>>, exc |-> responses[k].status]
    ELSE LET rest == ImageListLoop(batches, responses, pos, k + 1)
         IN  [requests |-> <<batches[k]>> \o rest.requests,
              urls |-> CutoutUrls(responses[k].services, pos) \o rest.urls,
              exc |-> rest.exc]

GetImageList(dl, c, query_result, coordinates, radius, regStatus, text, capsStatus, doc, responses) ==
    IF Falsy(query_result)
    THEN CadcOutcome(Raise("AttributeError", "Missing query_result argument"),
                     NotRead(dl, c), <<>>)
    ELSE IF "caomPublisherID" \notin query_result.columns
    THEN CadcOutcome(Raise("AttributeError",
                           "caomPublisherID column missing from query_result argument"),
                     NotRead(dl, c), <<>>)
    ELSE LET batches == Chunks(query_result.ids, n_pids)
             d == DataLinkUrl(dl, c, regStatus, text, capsStatus, doc)
             loop == ImageListLoop(batches, responses,
                                   CutoutPos(coordinates, radius), 1)
         IN  IF batches = <<>>
             THEN CadcOutcome(Return(<<>>), NotRead(dl, c), <<>>)
             ELSE IF d.access.result.kind = "raise"
             THEN CadcOutcome(d.access.result, d, <<>>)
             ELSE IF loop.exc # "-"
             THEN CadcOutcome(Raise(loop.exc, "-"), d, loop.requests)
             ELSE CadcOutcome(Return(loop.urls), d, loop.requests)

\* ---- get_data_urls ----
\* Mutant of RowIncluded: auxiliary rows are included whatever the flag.
RowIncluded_AlwaysAux(row, include_auxiliaries) ==
    row.semantics = "#this" \/ row.access_url # <<>>

\* The test on a row of the link table.
RowIncluded(row, include_auxiliaries) ==
    \/ row.semantics = "#this"
    \/ (row.access_url # <<>> /\ include_auxiliaries)

\* The URLs the rows of one link table add to the result.
RECURSIVE RowUrls(_, _)
RowUrls(rows, include_auxiliaries) ==
    IF rows = <<>> THEN <<>>
    ELSE (IF RowIncluded(Head(rows), include_auxiliaries)
          THEN <<Head(rows).access_url>> ELSE <<>>)
         \o RowUrls(Tail(rows), include_auxiliaries)

\* The loop over the publisher identifiers from the k-th on.
RECURSIVE DataUrlsLoop(_, _, _, _)
DataUrlsLoop(publisher_ids, responses, include_auxiliaries, k) ==
    IF k > Len(publisher_ids)
    THEN [requests |-> <<>>, urls |-> <<>>, exc |-> "-"]
    ELSE IF responses[k].status # "ok"
    THEN [requests |-> <<<<publisher_ids[k]>>>>, urls |-> <<>>,
          exc |-> responses[k].status]
    ELSE LET rest == DataUrlsLoop(publisher_ids, responses,
                                  include_auxiliaries, k + 1)
         IN  [requests |-> <<<<publisher_ids[k]>>>> \o rest.requests,
              urls |-> RowUrls(responses[k].rows, include_auxiliaries)
                           \o rest.urls,
              exc |-> rest.exc]

\* The column get_data_urls reads the publisher identifiers from.
DataUrlsColumn == "publisherID"

GetDataUrls(dl, c, query_result, include_auxiliaries, regStatus, text, capsStatus, doc, responses) ==
    IF Falsy(query_result)
    THEN CadcOutcome(Raise("AttributeError", "Missing metadata argument"),
                     NotRead(dl, c), <<>>)
    ELSE IF DataUrlsColumn \notin query_result.columns
    THEN CadcOutcome(Raise("AttributeError",
                           "caomPublisherID column missing from query_result argument"),
                     NotRead(dl, c), <<>>)
    ELSE LET d == DataLinkUrl(dl, c, regStatus, text, capsStatus, doc)
             loop == DataUrlsLoop(query_result.ids, responses,
                                  include_auxiliaries, 1)
         IN  IF d.access.result.kind = "raise"
             THEN CadcOutcome(d.access.result, d, <<>>)
             ELSE IF loop.exc # "-"
             THEN CadcOutcome(Raise(loop.exc, "-"), d, loop.requests)
             ELSE CadcOutcome(Return(loop.urls), d, loop.requests)

\* ---- get_images ----
\* run_query: its body is comments only, so it returns None.
RunQuery(query, operation) == NoneVal

\* get_images up to `response.get_results()`.
GetImages(coordinates, radius, collection, get_query_payload) ==
    LET payload == ArgsToPayload(coordinates, radius, collection)
        request_payload ==
            [query |-> payload.query \o <<" AND (dataProductType = 'image')">>]
        response ==
            RunQuery(request_payload.query \o <<" AND (dataProductType = 'image')">>,
                     "sync")
    IN  IF get_query_payload
        THEN Return(request_payload)
        ELSE IF response = NoneVal
        THEN Raise("AttributeError",
                   "'NoneType' object has no attribute 'get_results'")
        ELSE Return(<<>>)

\* The HDUList get_fits() reads from a URL.
Fits(url) == [hdulist |-> url]

\* The try block of get_images: the images appended before the first
\* get_fits() that raises HTTPError; the except clause ends the loop.
RECURSIVE Retrieve(_, _)
Retrieve(images_urls, outcomes) ==
    IF images_urls = <<>> THEN <<>>
    ELSE IF Head(outcomes) # "ok" THEN <<>>
    ELSE <<Fits(Head(images_urls))>> \o Retrieve(Tail(images_urls), Tail(outcomes))

(***************************************************************************)
(* State.                                                                  *)
(***************************************************************************)
VARIABLES
    caps,              \* get_access_url.caps
    registryRequests,  \* requests of the registry feed made so far
    registryText,      \* the text the registry serves
    capsDoc,           \* the capabilities document the services serve
    last,              \* the last get_access_url call: arguments and effect
    dataLinkUrl,       \* the instance's _data_link_url
    cadc               \* the operation of the instance: arguments and effect

vars == <<caps, registryRequests, registryText, capsDoc, last, dataLinkUrl, cadc>>

NoCall ==
    [op |-> "none", service |-> <<>>, capability |-> NoneVal,
     result |-> Return(<<>>), regReqs |-> 0, capsFetched |-> <<>>,
     answers |-> NoAnswers]

NoCadcCall == [op |-> "none"]

\* Services a caller names: a URL, registered and unregistered ivo://
\* URIs, and short names of CADC services.
UrlService == <<"http", "://direct/capabilities">>
Services == {UrlService, TapUri, <<"tap">>, <<"datalink">>, OtherUri}
CapabilityArgs == {NoneVal, <<>>, StdDatalink}

\* Capabilities documents of the registry runs.
RegistryRunDocs ==
    { <<CapabilityElem(StdDatalink), InterfaceElem(<<SmTls>>)>>,
      <<CapabilityElem(StdDatalink), InterfaceElem(<<SmTls>>),
        InterfaceElem(<<SmTls>>)>> }

\* The registry feed the capability and instance runs serve.
PopulatedFeed ==
    FeedText(<<TapUri \o <<" ", "=", " ">> \o TapCapsUrl,
               DatalinkUri \o <<"=">> \o DatalinkCapsUrl>>)

\* The record of a get_access_url call.
CallRecord(service, capability, o, answers) ==
    [op |-> "get_access_url", service |-> service,
     capability |-> capability, result |-> o.result,
     regReqs |-> o.regReqs, capsFetched |-> o.capsFetched,
     answers |-> answers]

GetAccessUrlCall(service, capability, regStatus, capsStatus) ==
    \E o \in {GetAccessUrl(caps, service, capability, regStatus, registryText,
                           capsStatus, capsDoc)} :
        /\ registryRequests + o.regReqs <= MaxRegistryRequests
        /\ caps' = o.caps
        /\ registryRequests' = registryRequests + o.regReqs
        /\ last' = CallRecord(service, capability, o,
                               Answers(o, regStatus, capsStatus))
        /\ UNCHANGED <<registryText, capsDoc, dataLinkUrl, cadc>>

\* The outcomes of the requests a call can make; a request the call
\* does not make has no outcome to choose.
RegistryOutcomes(service) ==
    IF ~IsUrl(service) /\ NeedsRegistry(caps)
    THEN RequestOutcomes ELSE {"ok"}

CapsOutcomes(capability) ==
    IF Truthy(capability) THEN RequestOutcomes ELSE {"ok"}

InitBase ==
    /\ caps = EmptyCaps
    /\ registryRequests = 0
    /\ last = NoCall
    /\ dataLinkUrl = Unset
    /\ cadc = NoCadcCall

\* Registry runs: any feed, any service.
Init ==
    /\ InitBase
    /\ registryText \in Feeds
    /\ capsDoc \in RegistryRunDocs

Call ==
    \E service \in Services, capability \in CapabilityArgs :
        \E regStatus \in RegistryOutcomes(service),
           capsStatus \in CapsOutcomes(capability) :
            GetAccessUrlCall(service, capability, regStatus, capsStatus)

Next == Call

Spec == Init /\ [][Next]_vars

\* Capability runs: any capabilities document, the service given by URL.
InitCaps ==
    /\ InitBase
    /\ registryText = PopulatedFeed
    /\ capsDoc \in Docs

CallUrl ==
    \E capability \in CapabilityArgs :
        \E capsStatus \in CapsOutcomes(capability) :
            GetAccessUrlCall(UrlService, capability, "ok", capsStatus)

NextCaps == CallUrl

SpecCaps == InitCaps /\ [][NextCaps]_vars

(***************************************************************************)
(* Instance runs: one operation of a CadcClass instance, on a fresh        *)
(* instance or after data_link_url was read.                               *)
(***************************************************************************)
MaxPids == 45
MaxRows == 2
MaxImages == 3

\* The capabilities document of the DataLink service.
DatalinkDoc ==
    <<CapabilityElem(StdTap), InterfaceElem(<<>>),
      CapabilityElem(StdDatalink), InterfaceElem(<<SmCookie>>)>>

Coordinates == {"08h45m07.5s +54d18m00s", "M31"}
Radii == {"0.1", "0.3 deg"}
Collections == {Absent, NoneVal, <<>>, <<"CFHT">>}
ColumnSets == SUBSET {"caomPublisherID", "publisherID"}

\* The publisher identifiers of a table with n rows.
Pids(n) == [i \in 1..n |-> i]

\* Service descriptors of a DataLink response.
Param(n, v) == [name |-> n, value |-> v]
SodaSync ==
    [semantics |-> "#cutout",
     access_url |-> <<"http", "://ws/caom2ops", "/sync">>,
     input_params |-> <<Param("ID", "ivo://cadc.nrc.ca/CFHT?a/b"),
                        Param("POS", ""), Param("RUNID", "run1"),
                        Param("BAND", "")>>]
SodaAsync ==
    [semantics |-> "#cutout",
     access_url |-> <<"http", "://ws/caom2ops", "/async">>,
     input_params |-> <<Param("ID", "ivo://cadc.nrc.ca/CFHT?c/d")>>]
PackageSync ==
    [semantics |-> "#package",
     access_url |-> <<"http", "://ws/caom2ops", "/sync", "/pkg">>,
     input_params |-> <<Param("ID", "ivo://cadc.nrc.ca/CFHT?c/d")>>]
SodaSyncTwice ==
    [semantics |-> "#cutout",
     access_url |-> <<"http", "://ws/soda", "/sync">>,
     input_params |-> <<Param("RUNID", "run1"), Param("ID", "ivo://cadc.nrc.ca/CFHT?e/f"),
                        Param("RUNID", "run2")>>]

ImageListResponses ==
    { [status |-> "ok", services |-> <<>>],
      [status |-> "ok", services |-> <<SodaSync>>],
      [status |-> "ok", services |-> <<SodaAsync, PackageSync, SodaSyncTwice>>],
      [status |-> "HTTPError", services |-> <<>>] }

\* The answers to the requests of a get_image_list call.
ImageListAnswers(q) ==
    IF Falsy(q) \/ "caomPublisherID" \notin q.columns
    THEN {<<>>}
    ELSE [1..Len(Chunks(q.ids, n_pids)) -> ImageListResponses]

\* Rows of a link table: primary or auxiliary, with or without URL.
RowKinds == [semantics : {"#this", "#preview"}, hasUrl : BOOLEAN]

\* The link table answering the request for publisher identifier pid.
LinkRow(kind, pid, j) ==
    [semantics |-> kind.semantics,
     access_url |-> IF kind.hasUrl
                    THEN <<"http", "://data/", PosName[pid], PosName[j]>>
                    ELSE <<>>]

LinkAnswers ==
    {[status |-> "ok", kinds |-> ks] : ks \in SeqUpTo(RowKinds, MaxRows)}
        \cup {[status |-> "HTTPError", kinds |-> <<>>]}

LinkResponse(answer, pid) ==
    [status |-> answer.status,
     rows |-> [j \in 1..Len(answer.kinds) |-> LinkRow(answer.kinds[j], pid, j)]]

\* The answers to the requests of a get_data_urls call.
DataUrlsAnswers(q) ==
    IF Falsy(q) \/ DataUrlsColumn \notin q.columns
    THEN {<<>>}
    ELSE [1..Len(q.ids) -> LinkAnswers]

\* The outcomes of the requests reading data_link_url can make.
PropertyOutcomes(statuses) == IF dataLinkUrl = Unset THEN statuses ELSE {"ok"}

\* The effect of reading data_link_url on the state.
ReadEffect(d) ==
    /\ registryRequests + d.access.regReqs <= MaxRegistryRequests
    /\ dataLinkUrl' = d.url
    /\ caps' = d.access.caps
    /\ registryRequests' = registryRequests + d.access.regReqs
    /\ last' = IF d.called
               THEN CallRecord(CADCDATALINK_SERVICE_URI, StdDatalink, d.access,
                               d.answers)
               ELSE last
    /\ UNCHANGED <<registryText, capsDoc>>

\* The end of an operation with outcome o.
Finish(op, args, o) ==
    /\ ReadEffect(o.dl)
    /\ cadc' = [op |-> op, args |-> args, result |-> o.result,
                regReqs |-> o.dl.access.regReqs,
                capsFetched |-> o.dl.access.capsFetched,
                dlRequests |-> o.dlRequests]

\* The data_link_url of a fresh instance is read.
ReadDataLinkUrl ==
    /\ cadc.op = "none"
    /\ last.op = "none"
    /\ dataLinkUrl = Unset
    /\ \E regStatus \in RegistryOutcomes(CADCDATALINK_SERVICE_URI),
          capsStatus \in RequestOutcomes :
        /\ ReadEffect(DataLinkUrl(dataLinkUrl, caps, regStatus, registryText,
                                  capsStatus, capsDoc))
        /\ UNCHANGED cadc

ArgsToPayloadCall ==
    /\ cadc.op = "none"
    /\ \E coordinates \in Coordinates, radius \in Radii,
          collection \in Collections :
        Finish("_args_to_payload",
               [coordinates |-> coordinates, radius |-> radius,
                collection |-> collection],
               CadcOutcome(Return(ArgsToPayload(coordinates, radius, collection)),
                           NotRead(dataLinkUrl, caps), <<>>))

GetImageListCall ==
    /\ cadc.op = "none"
    /\ \E q \in {NoneResult}
                 \cup {Table(cs, Pids(n)) : cs \in ColumnSets, n \in 0..MaxPids},
          coordinates \in Coordinates, radius \in Radii :
        \E regStatus \in PropertyOutcomes(
                             RegistryOutcomes(CADCDATALINK_SERVICE_URI)),
           capsStatus \in PropertyOutcomes(RequestOutcomes),
           responses \in ImageListAnswers(q) :
            \E o \in {GetImageList(dataLinkUrl, caps, q, coordinates, radius,
                                   regStatus, registryText, capsStatus, capsDoc,
                                   responses)} :
                Finish("get_image_list",
                       [query_result |-> q, coordinates |-> coordinates,
                        radius |-> radius,
                        responses |-> SubSeq(responses, 1, Len(o.dlRequests))],
                       o)

GetDataUrlsCall ==
    /\ cadc.op = "none"
    /\ \E q \in {NoneResult}
                 \cup {Table(cs, Pids(n)) : cs \in ColumnSets, n \in 0..2},
          include_auxiliaries \in BOOLEAN :
        \E regStatus \in PropertyOutcomes(
                             RegistryOutcomes(CADCDATALINK_SERVICE_URI)),
           capsStatus \in PropertyOutcomes(RequestOutcomes),
           answers \in DataUrlsAnswers(q) :
            \E responses \in {[k \in 1..Len(answers) |->
                                  LinkResponse(answers[k], q.ids[k])]} :
            \E o \in {GetDataUrls(dataLinkUrl, caps, q, include_auxiliaries,
                                  regStatus, registryText, capsStatus, capsDoc,
                                  responses)} :
                Finish("get_data_urls",
                       [query_result |-> q,
                        include_auxiliaries |-> include_auxiliaries,
                        responses |-> SubSeq(responses, 1, Len(o.dlRequests))],
                       o)

GetImagesCall ==
    /\ cadc.op = "none"
    /\ \E coordinates \in Coordinates, radius \in Radii,
          collection \in Collections, get_query_payload \in BOOLEAN :
        Finish("get_images",
               [coordinates |-> coordinates, radius |-> radius,
                collection |-> collection,
                get_query_payload |-> get_query_payload],
               CadcOutcome(GetImages(coordinates, radius, collection,
                                     get_query_payload),
                           NotRead(dataLinkUrl, caps), <<>>))

\* The URL of the i-th cutout of an image list.
CutoutUrlAt(i) == <<"http", "://ws/caom2ops", "/sync", "?", PosName[i]>>

\* The retrieval of get_images, applied to a list of cutout URLs.
RetrieveImages ==
    /\ cadc.op = "none"
    /\ \E n \in 0..MaxImages :
        \E outcomes \in [1..n -> HttpOutcomes] :
            Finish("get_images.retrieve",
                   [images_urls |-> [i \in 1..n |-> CutoutUrlAt(i)],
                    outcomes |-> outcomes],
                   CadcOutcome(Return(Retrieve([i \in 1..n |-> CutoutUrlAt(i)],
                                               outcomes)),
                               NotRead(dataLinkUrl, caps), <<>>))

InitCadc ==
    /\ InitBase
    /\ registryText = PopulatedFeed
    /\ capsDoc = DatalinkDoc

NextCadc ==
    \/ ReadDataLinkUrl
    \/ ArgsToPayloadCall
    \/ GetImageListCall
    \/ GetDataUrlsCall
    \/ GetImagesCall
    \/ RetrieveImages

SpecCadc == InitCadc /\ [][NextCadc]_vars

(***************************************************************************)
(* Properties of get_access_url.                                           *)
(***************************************************************************)
IsCall == last.op = "get_access_url"

\* C1 as stated: over any sequence of calls the registry feed is requested
\* at most once, whatever the feed contains.
C1_RequestedAtMostOnce == registryRequests <= 1

\* C1 as amended: a call requests the registry feed at most once, and only
\* for a service that is no URL while the cache is empty; a cache that
\* holds an entry stays non-empty, so the feed is never requested again
\* once a fetch has stored an entry.
C1_RequestedOnlyWhileEmpty ==
    [][ /\ (registryRequests' # registryRequests) =>
            (/\ caps = EmptyCaps
             /\ registryRequests' = registryRequests + 1
             /\ ~StartsWith(last'.service, <<"http">>))
        /\ (caps # EmptyCaps) => (caps' # EmptyCaps) ]_vars

\* A call for a registered service that found the cache populated by an
\* earlier call and made no request of the registry.
C1_Witness ==
    /\ IsCall
    /\ ~StartsWith(last.service, <<"http">>)
    /\ registryRequests = 1
    /\ last.regReqs = 0
    /\ caps # EmptyCaps
    /\ last.result.kind = "return"

\* The capability that owns the interface at position p: the last
\* <capability> before it, 0 when there is none.
Owner(doc, p) ==
    LET before == {q \in 1..(p - 1) : doc[q].tag = "capability"}
    IN  IF before = {} THEN 0 ELSE CHOOSE q \in before : \A r \in before : r <= q

\* The interfaces of the capability at position q.
OwnedBy(doc, q) ==
    {p \in 1..Len(doc) : doc[p].tag = "interface" /\ Owner(doc, p) = q}

\* The capabilities of a document with the standard ID asked for.
Matching(doc, capability) ==
    {q \in 1..Len(doc) :
        doc[q].tag = "capability" /\ doc[q].standardid = capability}

\* An interface with no security method, one without standard ID, or the
\* cookie security method.
AnonOrCookie(doc, p) ==
    doc[p].securitymethod \in {<<>>, <<NoneVal>>, <<SmCookie>>}

\* The last call fetched the capabilities document and got it.
ParsedDoc ==
    /\ IsCall
    /\ Truthy(last.capability)
    /\ last.capsFetched # <<>>
    /\ last.answers.capabilities = "ok"

\* C7: a capabilities document with exactly one interface for the
\* requested standard ID resolves to the access URL of that interface,
\* whatever its security method.
C7_SingleInterface ==
    ParsedDoc =>
        \A p \in 1..Len(capsDoc) :
            (UNION {OwnedBy(capsDoc, q) : q \in Matching(capsDoc, last.capability)}
                = {p})
            => (last.result = Return(AccessUrlAt(p)))

\* The only interface for the standard ID has the certificate security
\* method, and its URL was returned.
C7_Witness ==
    /\ ParsedDoc
    /\ \E p \in 1..Len(capsDoc) :
        /\ UNION {OwnedBy(capsDoc, q) : q \in Matching(capsDoc, last.capability)}
               = {p}
        /\ capsDoc[p].securitymethod = <<SmTls>>
        /\ last.result = Return(AccessUrlAt(p))

\* C8: when every capability for the requested standard ID has several
\* interfaces none of which has no, the anonymous or the cookie security
\* method, and also when no capability has the standard ID, the call raises
\* RuntimeError and returns no URL.
C8_NoUsableInterface ==
    ParsedDoc =>
        ((\A q \in Matching(capsDoc, last.capability) :
            /\ Cardinality(OwnedBy(capsDoc, q)) >= 2
            /\ \A p \in OwnedBy(capsDoc, q) : ~AnonOrCookie(capsDoc, p))
         => last.result = Raise("RuntimeError", CapabilityNotFound))

\* A capability for the standard ID with several interfaces, all with the
\* certificate security method: the call raised RuntimeError.
C8_Witness ==
    /\ ParsedDoc
    /\ \E q \in Matching(capsDoc, last.capability) :
        Cardinality(OwnedBy(capsDoc, q)) >= 2
    /\ \A q \in Matching(capsDoc, last.capability) :
        /\ Cardinality(OwnedBy(capsDoc, q)) >= 2
        /\ \A p \in OwnedBy(capsDoc, q) : ~AnonOrCookie(capsDoc, p)
    /\ last.result = Raise("RuntimeError", CapabilityNotFound)

\* C9: when the URL returned is that of an interface of a capability with
\* more than one interface, the interface has no security method, one
\* without standard ID, or the cookie security method, and it is the first
\* such interface of the capability in document order.
C9_FirstAnonOrCookie ==
    (ParsedDoc /\ last.result.kind = "return") =>
        \E p \in 1..Len(capsDoc) :
            /\ capsDoc[p].tag = "interface"
            /\ Owner(capsDoc, p) \in Matching(capsDoc, last.capability)
            /\ last.result.value = AccessUrlAt(p)
            /\ (Cardinality(OwnedBy(capsDoc, Owner(capsDoc, p))) > 1) =>
                /\ AnonOrCookie(capsDoc, p)
                /\ \A r \in OwnedBy(capsDoc, Owner(capsDoc, p)) :
                    (r < p) => ~AnonOrCookie(capsDoc, r)

\* A capability with three interfaces, the first with the certificate
\* security method: the URL returned is that of the second.
C9_Witness ==
    /\ ParsedDoc
    /\ \E q \in Matching(capsDoc, last.capability) :
        /\ Cardinality(OwnedBy(capsDoc, q)) = 3
        /\ capsDoc[q + 1].securitymethod = <<SmTls>>
        /\ AnonOrCookie(capsDoc, q + 2)
        /\ last.result = Return(AccessUrlAt(q + 2))

\* C10: a call with a service that is a URL never requests the registry
\* and leaves the cache as it was; without capability it returns the
\* service unchanged and makes no request at all, with a capability it
\* requests the capabilities document from exactly that URL.
C10_UrlService ==
    [][ (last'.op = "get_access_url" /\ StartsWith(last'.service, <<"http">>)) =>
            (/\ caps' = caps
             /\ registryRequests' = registryRequests
             /\ last'.regReqs = 0
             /\ IF Truthy(last'.capability)
                THEN last'.capsFetched = <<last'.service>>
                ELSE /\ last'.capsFetched = <<>>
                     /\ last'.result = Return(last'.service)) ]_vars

\* A URL was resolved with a capability while the cache was populated.
C10_Witness ==
    /\ IsCall
    /\ StartsWith(last.service, <<"http">>)
    /\ Truthy(last.capability)
    /\ last.capsFetched = <<last.service>>
    /\ last.result.kind = "return"
    /\ caps # EmptyCaps
    /\ registryRequests = 1

\* The key under which the cache is asked for a service: the service
\* itself when it begins with 'ivo', else the service behind the CADC
\* authority.
LookupKey(service) ==
    IF Head(service) = "ivo"
    THEN service
    ELSE <<"ivo", "://cadc.nrc.ca/">> \o service

\* The call reached the lookup: its service is no URL and neither the
\* request of the registry nor the parsing of the feed raised.
ReachedLookup ==
    /\ IsCall
    /\ ~StartsWith(last.service, <<"http">>)
    /\ last.answers.registry \in {"-", "ok"}
    /\ ~(last.result.kind = "raise" /\ last.result.exc = "ValueError")

\* C11: a call for a service that is no URL asks the cache for the service
\* itself when it begins with 'ivo' and for ivo://cadc.nrc.ca/<service>
\* otherwise.  When the cache lacks that key the call raises the
\* unknown-service AttributeError and requests no capabilities document;
\* when the cache holds it the call goes on with the URL stored under it.
C11_Lookup ==
    ReachedLookup =>
        LET key == LookupKey(last.service)
        IN  IF key \notin DOMAIN caps
            THEN /\ last.result = Raise("AttributeError", CannotFindService)
                 /\ last.capsFetched = <<>>
            ELSE /\ last.result # Raise("AttributeError", CannotFindService)
                 /\ IF Truthy(last.capability)
                    THEN last.capsFetched = <<caps[key]>>
                    ELSE /\ last.capsFetched = <<>>
                         /\ last.result = Return(caps[key])

\* The short name 'datalink' was expanded and missed a cache that holds
\* other services.
C11_Witness ==
    /\ ReachedLookup
    /\ last.service = <<"datalink">>
    /\ Truthy(last.capability)
    /\ caps # EmptyCaps
    /\ DatalinkUri \notin DOMAIN caps
    /\ last.result = Raise("AttributeError", CannotFindService)
    /\ last.capsFetched = <<>>

\* The lines of the feed that hold an entry: neither empty nor comments.
DataLines(text) ==
    LET lines == SplitLines(text)
    IN  {lines[i] : i \in {j \in 1..Len(lines) :
                              lines[j] # <<>> /\ Head(lines[j]) # "#"}}

\* The key and the value of a 'key = value' line: what stands before and
\* after its first '=', without the surrounding blanks.
FirstEq(line) ==
    CHOOSE i \in 1..Len(line) :
        line[i] = "=" /\ \A k \in 1..(i - 1) : line[k] # "="
KeyOf(line) == Strip(SubSeq(line, 1, FirstEq(line) - 1))
ValueOf(line) == Strip(SubSeq(line, FirstEq(line) + 1, Len(line)))

\* The call requested the registry feed and received it.
FeedReceived ==
    /\ IsCall
    /\ last.answers.registry = "ok"

\* C13: after a call that received the registry feed, the cache holds
\* exactly one entry, stripped key to stripped value, for every line of
\* the feed that is neither empty nor a comment, values that contain '='
\* included, and no other entry.
C13_FullyParsed ==
    FeedReceived =>
        /\ DOMAIN caps = {KeyOf(l) : l \in DataLines(registryText)}
        /\ \A l \in DataLines(registryText) : caps[KeyOf(l)] = ValueOf(l)

\* C15: an error of the registry request or of the capabilities request
\* of get_access_url reaches the caller as it is.  When the registry
\* request fails it was made once, the feed is not parsed (the cache
\* stays empty) and no capabilities document is requested; when the
\* capabilities request fails it was made once; in both cases the call
\* raises the error of the request and returns no URL.
C15_ErrorsPropagate ==
    IsCall =>
        /\ (last.answers.registry \notin {"-", "ok"}) =>
               (/\ last.result = Raise(last.answers.registry, "-")
                /\ last.regReqs = 1
                /\ last.capsFetched = <<>>
                /\ caps = EmptyCaps)
        /\ (last.answers.capabilities \notin {"-", "ok"}) =>
               (/\ last.result = Raise(last.answers.capabilities, "-")
                /\ Len(last.capsFetched) = 1
                /\ last.regReqs <= 1)

\* The capabilities request of a call that had just filled the cache from
\* the registry failed.
C15_Witness ==
    /\ IsCall
    /\ last.answers.registry = "ok"
    /\ last.answers.capabilities = "HTTPError"
    /\ caps # EmptyCaps
    /\ last.capsFetched = <<TapCapsUrl>>
    /\ last.result = Raise("HTTPError", "-")

(***************************************************************************)
(* Properties of the CadcClass operations.                                 *)
(***************************************************************************)
\* The requests of any kind the operation made.
NetworkCalls == cadc.regReqs + Len(cadc.capsFetched) + Len(cadc.dlRequests)

ColumnMissing ==
    Raise("AttributeError",
          "caomPublisherID column missing from query_result argument")

\* s holds sub as a run of consecutive tokens.
ContainsSeq(s, sub) ==
    \E i \in 0..(Len(s) - Len(sub)) : SubSeq(s, i + 1, i + Len(sub)) = sub

\* C2: the retrieval of get_images skips a file whose retrieval raises
\* HTTPError and goes on: the list returned holds the image of every URL
\* whose retrieval succeeds, those after a failing one included.
C2_EverySuccessfulImage ==
    cadc.op = "get_images.retrieve" =>
        /\ cadc.result.kind = "return"
        /\ \A i \in 1..Len(cadc.args.images_urls) :
            (cadc.args.outcomes[i] = "ok") =>
                \E j \in 1..Len(cadc.result.value) :
                    cadc.result.value[j] = Fits(cadc.args.images_urls[i])

\* C3: get_data_urls on a table with rows raises the missing-column
\* AttributeError, before any request, when the table lacks the
\* caomPublisherID column, and does not raise it when the table has it.
C3_PublisherIdColumn ==
    (cadc.op = "get_data_urls" /\ ~Falsy(cadc.args.query_result)) =>
        IF "caomPublisherID" \notin cadc.args.query_result.columns
        THEN cadc.result = ColumnMissing /\ NetworkCalls = 0
        ELSE cadc.result # ColumnMissing

\* C4: get_image_list sends one DataLink request per batch of at most 20
\* publisher identifiers: for n >= 1 identifiers ceil(n/20) requests, each
\* but the last with 20 identifiers, the last with 1 to 20, and the batches
\* in request order make up the identifiers in their order.
C4_Batches ==
    (cadc.op = "get_image_list" /\ cadc.result.kind = "return") =>
        LET ids == cadc.args.query_result.ids
            reqs == cadc.dlRequests
        IN  /\ Len(ids) >= 1
            /\ Len(reqs) = (Len(ids) + 19) \div 20
            /\ \A k \in 1..(Len(reqs) - 1) : Len(reqs[k]) = 20
            /\ Len(reqs[Len(reqs)]) \in 1..20
            /\ Flatten(reqs) = ids

\* 45 identifiers were sent in three requests of 20, 20 and 5.
C4_Witness ==
    /\ cadc.op = "get_image_list"
    /\ cadc.result.kind = "return"
    /\ Len(cadc.args.query_result.ids) = 45
    /\ Len(cadc.dlRequests) = 3
    /\ Len(cadc.dlRequests[1]) = 20
    /\ Len(cadc.dlRequests[2]) = 20
    /\ Len(cadc.dlRequests[3]) = 5

\* The URLs of the rows of a link table the claim keeps: the '#this' rows,
\* and with include_auxiliaries the other rows that have an access URL.
KeptUrls(rows, include_auxiliaries) ==
    LET kept == SelectSeq(rows,
                    LAMBDA row : \/ row.semantics = "#this"
                                 \/ (row.access_url # <<>> /\ include_auxiliaries))
    IN  [j \in 1..Len(kept) |-> kept[j].access_url]

\* C5: get_data_urls returns, in row order, the access URL of every row
\* with '#this' semantics and, iff include_auxiliaries is true, of every
\* other row whose access URL is not empty.
C5_RowsIncluded ==
    (cadc.op = "get_data_urls" /\ cadc.result.kind = "return") =>
        cadc.result.value =
            Flatten([k \in 1..Len(cadc.args.responses) |->
                        KeptUrls(cadc.args.responses[k].rows,
                                 cadc.args.include_auxiliaries)])

\* A primary row followed by an auxiliary row with a URL, with
\* include_auxiliaries: both URLs were returned, in row order.
C5_Witness ==
    /\ cadc.op = "get_data_urls"
    /\ cadc.result.kind = "return"
    /\ cadc.args.include_auxiliaries
    /\ Len(cadc.args.responses) = 1
    /\ Len(cadc.args.responses[1].rows) = 2
    /\ cadc.args.responses[1].rows[1].semantics = "#this"
    /\ cadc.args.responses[1].rows[2].semantics = "#preview"
    /\ cadc.args.responses[1].rows[2].access_url # <<>>
    /\ cadc.result.value = <<cadc.args.responses[1].rows[1].access_url,
                             cadc.args.responses[1].rows[2].access_url>>

\* C6: the ADQL of _args_to_payload holds the INTERSECTS(CIRCLE(...))
\* predicate on the position and radius given and the junk-quality
\* exclusion, and it holds the collection filter iff a non-empty collection
\* was passed.
C6_Adql ==
    cadc.op = "_args_to_payload" =>
        LET query == cadc.result.value.query
            pos == ParseCoordinates(cadc.args.coordinates)
            collection == cadc.args.collection
        IN  /\ ContainsSeq(query,
                   <<"INTERSECTS( CIRCLE('ICRS', ", pos.ra, ", ", pos.dec, ", ",
                     cadc.args.radius, "), position_bounds) = 1">>)
            /\ ContainsSeq(query, <<AdqlJunk>>)
            /\ IF collection \in {Absent, NoneVal, <<>>}
               THEN \A i \in 1..Len(query) : query[i] # "collection='"
               ELSE ContainsSeq(query,
                        <<" AND ", "collection='">> \o collection \o <<"'">>)

\* A call with a collection: the filter on it is in the ADQL.
C6_Witness ==
    /\ cadc.op = "_args_to_payload"
    /\ cadc.args.collection = <<"CFHT">>
    /\ ContainsSeq(cadc.result.value.query, <<"collection='", "CFHT", "'">>)


\* C12: get_image_list raises AttributeError when query_result is None or
\* a table without rows, and when the table has rows but no
\* caomPublisherID column; in both cases it sends no DataLink request and
\* returns no list.
C12_UsageError ==
    cadc.op = "get_image_list" =>
        LET q == cadc.args.query_result
        IN  /\ (q.isNone \/ q.ids = <<>>) =>
                   (/\ cadc.result =
                          Raise("AttributeError", "Missing query_result argument")
                    /\ cadc.dlRequests = <<>>)
            /\ (~q.isNone /\ q.ids # <<>> /\ "caomPublisherID" \notin q.columns) =>
                   (/\ cadc.result = ColumnMissing
                    /\ cadc.dlRequests = <<>>)

\* get_image_list was called, with the DataLink URL known, on a table
\* with rows whose publisher identifiers are in another column.
C12_Witness ==
    /\ cadc.op = "get_image_list"
    /\ dataLinkUrl # Unset
    /\ ~cadc.args.query_result.isNone
    /\ Len(cadc.args.query_result.ids) > n_pids
    /\ cadc.args.query_result.columns = {"publisherID"}
    /\ cadc.result = ColumnMissing
    /\ cadc.dlRequests = <<>>


\* A service entry with cutout semantics in synchronous mode.
IsSyncCutout(service_def) ==
    /\ service_def.semantics = "#cutout"
    /\ ContainsSeq(service_def.access_url, <<"/sync">>)

\* The parameters a service declares under the names ID and RUNID; of
\* several declarations of a name the last one counts.
Declared(service_def) ==
    LET ps == service_def.input_params
    IN  {<<ps[j].name, ps[j].value>> :
            j \in {k \in 1..Len(ps) :
                      /\ ps[k].name \in {"ID", "RUNID"}
                      /\ \A m \in (k + 1)..Len(ps) : ps[m].name # ps[k].name}}

\* The POS parameter of a call: the circle around the parsed coordinates
\* with the radius as given.
PosCircle(coordinates, radius) ==
    <<"POS", <<"CIRCLE ", ParseCoordinates(coordinates).ra, " ",
               ParseCoordinates(coordinates).dec, " ", radius>>>>

\* The entries of the answers to the batches, in batch order, that are
\* cutout services in synchronous mode.
SyncCutouts(responses) ==
    Flatten([k \in 1..Len(responses) |->
                SelectSeq(responses[k].services, IsSyncCutout)])

\* C14: the list get_image_list returns holds one URL for every service
\* entry with '#cutout' semantics whose access URL contains '/sync', and
\* none for any other entry, in the order of the batches and of the
\* entries of each answer; the parameters of a URL are the ID and RUNID
\* parameters the service declares and the POS circle of the call's
\* coordinates and radius, each once and nothing else.
C14_CutoutUrls ==
    (cadc.op = "get_image_list" /\ cadc.result.kind = "return") =>
        LET urls == cadc.result.value
            kept == SyncCutouts(cadc.args.responses)
        IN  /\ Len(urls) = Len(kept)
            /\ \A i \in 1..Len(urls) :
                LET want == Declared(kept[i]) \cup
                              {PosCircle(cadc.args.coordinates, cadc.args.radius)}
                IN  /\ urls[i].url = kept[i].access_url
                    /\ {urls[i].params[j] : j \in 1..Len(urls[i].params)} = want
                    /\ Len(urls[i].params) = Cardinality(want)

\* Two batches were answered, the first with an asynchronous cutout, a
\* synchronous package and a synchronous cutout, the second with one
\* synchronous cutout; the list holds the two synchronous cutouts.
C14_Witness ==
    /\ cadc.op = "get_image_list"
    /\ cadc.result.kind = "return"
    /\ Len(cadc.args.responses) = 2
    /\ cadc.args.responses[1].services = <<SodaAsync, PackageSync, SodaSyncTwice>>
    /\ cadc.args.responses[2].services = <<SodaSync>>
    /\ Len(cadc.result.value) = 2
    /\ cadc.result.value[1].url = SodaSyncTwice.access_url
    /\ cadc.result.value[2].url = SodaSync.access_url

=============================================================================
